---- MODULE Spec2Model ----
(***************************************************************************)
(* Model of the EventPlayer class of src/src/FleetDashboard.jsx (the       *)
(* virtual clock / event scheduler) and of the FleetDashboard handlers     *)
(* that drive it: togglePlay, stepForward, Reset and the speed select.     *)
(*                                                                         *)
(* Times are integers in milliseconds.  A timestamp is the value that      *)
(* new Date(iso).getTime() yields for the record's ISO string.  Speeds     *)
(* are kept in quarters (speed 4 is the factor 1, speed 1 the factor       *)
(* 0.25), so that elapsedReal * speed stays an exact rational; new Date(x) *)
(* truncates a fractional time value to whole milliseconds (TimeClip).     *)
(***************************************************************************)
EXTENDS Integers, Sequences, FiniteSets, TLC

\* ---------------------------------------------------------------- bounds
MaxLen == 2          \* longest event log drawn at construction
Quantum == 125       \* granularity (ms) at which wall time is observed
MaxWall == 1500      \* last wall-clock instant explored in Spec
LateQuanta == 1      \* how many quanta a timer callback may run late
PreWait == 125       \* wall time that may pass before play() in a play-through

\* ----------------------------------------------------- program constants
TickMs == 250        \* setInterval period of play()
SpeedDen == 4        \* speeds are counted in quarters
DefaultSpeed == 4    \* useState(1), and the speed the dashboard constructs the player with

NULL == -1           \* JavaScript null (timer, baseReal, startTime)
NaN == -2            \* time value of new Date(x) for an unparseable x
WallStart == 1000    \* Date.now() when the player is constructed

TsSet == {0, 50, 100}              \* parseable timestamps of the log's records
Speeds == {0, 1, 4}                \* factors 0, 0.25, 1
SeekTargets == {0, 50, 100, 150}
StartTimes == {NULL, 50}           \* startTime option of the constructor; NULL: omitted

VARIABLES
  events,     \* this.events: the log, sorted by the constructor
  speed,      \* this.speed
  timer,      \* this.timer: NULL, or the wall time at which the interval is next due
  baseReal,   \* this.baseReal
  baseSim,    \* this.baseSim
  pointer,    \* this.pointer (0-based)
  simNow,     \* this.simNow
  now,        \* Date.now()
  emit,       \* the onTick / onEvent calls made by the last operation, in order
  session,    \* ids passed to onEvent in the current play session
  op,         \* name of the last operation
  paused,     \* TRUE from the return of pause() until the next play()
  lastSeek,   \* [t, fwd]: target of the last seek, and whether it went forward
  stepped,    \* ids appended by stepForward to the activity feed since it was last empty
  mark,       \* [op, sim, real]: last control call, getSimTime() and Date.now() at its return
  lastTick,   \* time carried by the last onTick call, NULL before the first
  isPlaying,  \* FleetDashboard state isPlaying
  uiSpeed,    \* FleetDashboard state speed
  activity,   \* FleetDashboard state activity: ids, newest first
  uiSimTime   \* FleetDashboard state simTime, NULL before it is set

vars == <<events, speed, timer, baseReal, baseSim, pointer, simNow, now,
          emit, session, op, paused, lastSeek, stepped,
          mark, lastTick, isPlaying, uiSpeed, activity, uiSimTime>>

\* what the player's own methods never touch
clockObs == <<mark, lastTick>>
uiVars == <<isPlaying, uiSpeed, activity, uiSimTime>>

playerVars == <<events, speed, timer, baseReal, baseSim, pointer, simNow>>

\* ------------------------------------------------------------- the log
Event(i, t) == [id |-> i, ts |-> t]

\* the input logs: record i of the input carries id i
InputLogs ==
  UNION { { [i \in 1..n |-> Event(i, f[i])] : f \in [1..n -> TsSet] } : n \in 0..MaxLen }

\* new Date(a) <= new Date(b), new Date(a) < new Date(b): false when either is invalid
DateLe(a, b) == a # NaN /\ b # NaN /\ a <= b
DateLt(a, b) == a # NaN /\ b # NaN /\ a < b

\* comparator of the constructor's sort: new Date(a.timestamp) - new Date(b.timestamp);
\* sort takes a NaN result for +0
CompareDescending(a, b) == IF a.ts = NaN \/ b.ts = NaN THEN 0 ELSE b.ts - a.ts
Compare(a, b) == IF a.ts = NaN \/ b.ts = NaN THEN 0 ELSE a.ts - b.ts

\* position at which a stable sort places e in the sorted sequence s:
\* behind every element that does not compare greater than e
RECURSIVE InsertPos(_, _, _)
InsertPosUnstable(s, e, k) ==
  IF k > Len(s) THEN k
  ELSE IF Compare(s[k], e) >= 0 THEN k
  ELSE InsertPos(s, e, k + 1)
InsertPos(s, e, k) ==
  IF k > Len(s) THEN k
  ELSE IF Compare(s[k], e) > 0 THEN k
  ELSE InsertPos(s, e, k + 1)

InsertAt(s, e, k) == SubSeq(s, 1, k - 1) \o <<e>> \o SubSeq(s, k, Len(s))

\* events.slice().sort(cmp): Array.prototype.sort is stable
RECURSIVE SortEvents(_)
SortEvents(s) ==
  IF s = <<>> THEN <<>>
  ELSE LET front == SortEvents(SubSeq(s, 1, Len(s) - 1))
           e == s[Len(s)]
       IN InsertAt(front, e, InsertPos(front, e, 1))

\* ------------------------------------------------------------ the clock
\* new Date(x): a time value is truncated to whole milliseconds
Trunc(num, den) == num \div den

\* getSimTime() as a function of the fields it reads
SimTimeAtUnscaled(bReal, bSim, spd, wall) ==
  IF bReal = NULL \/ bSim = NaN THEN bSim
  ELSE bSim + (wall - bReal)
SimTimeAt(bReal, bSim, spd, wall) ==
  IF bReal = NULL \/ bSim = NaN THEN bSim
  ELSE bSim + Trunc((wall - bReal) * spd, SpeedDen)

GetSimTime == SimTimeAt(baseReal, baseSim, speed, now)

\* findIndex(e => new Date(e.timestamp) >= t), with -1 replaced by the length
RECURSIVE FirstAtLeast(_, _, _)
FirstAfterOnly(s, t, k) ==
  IF k > Len(s) THEN Len(s)
  ELSE IF DateLt(t, s[k].ts) THEN k - 1
  ELSE FirstAtLeast(s, t, k + 1)
FirstAtLeast(s, t, k) ==
  IF k > Len(s) THEN Len(s)
  ELSE IF DateLe(t, s[k].ts) THEN k - 1
  ELSE FirstAtLeast(s, t, k + 1)

\* stepForward's findIndex(e => new Date(e.timestamp) > now); -1 when none
RECURSIVE FirstAfter(_, _, _)
FirstAfter(s, t, k) ==
  IF k > Len(s) THEN -1
  ELSE IF DateLt(t, s[k].ts) THEN k - 1
  ELSE FirstAfter(s, t, k + 1)

\* the while loop of _tick: index reached from p when the clock reads t
RECURSIVE DrainTo(_, _, _)
DrainToStrict(s, p, t) ==
  IF p < Len(s) /\ DateLt(s[p + 1].ts, t) THEN DrainTo(s, p + 1, t) ELSE p
DrainToOne(s, p, t) ==
  IF p < Len(s) /\ DateLe(s[p + 1].ts, t) THEN p + 1 ELSE p
DrainTo(s, p, t) ==
  IF p < Len(s) /\ DateLe(s[p + 1].ts, t) THEN DrainTo(s, p + 1, t) ELSE p

\* this.pointer after the loop
NextPointerStale(s, p, t) ==
  IF DrainTo(s, p, t) > p THEN DrainTo(s, p, t) - 1 ELSE p
NextPointer(s, p, t) == DrainTo(s, p, t)

\* if (this.pointer >= this.events.length) this.pause(), else the interval runs on
TimerAfterTickNoStop(s, p, tm) == tm + TickMs
TimerAfterTick(s, p, tm) == IF p >= Len(s) THEN NULL ELSE tm + TickMs

\* pause(): clearInterval and this.timer = null
TimerAfterPauseKept(tm) == tm
TimerAfterPause(tm) == NULL

TickSig(t) == [kind |-> "tick", val |-> t]
EventSig(e) == [kind |-> "event", val |-> e.id]

\* the onEvent calls of one tick: events p+1 .. q of the log
Delivered(s, p, q) == [k \in 1..(q - p) |-> EventSig(s[p + k])]
Ids(sigs) == [k \in 1..Len(sigs) |-> sigs[k].val]

\* mark before any control call
NoMark == [op |-> "new", sim |-> NULL, real |-> NULL]

\* lastSeek before any seek
NoSeek == [t |-> NULL, fwd |-> FALSE]

\* --------------------------------------------------------- construction
\* constructor(events, {startTime, speed})
ConstructFrom(sorted, startTime, spd) ==
     /\ events = sorted
     /\ speed = spd
     /\ timer = NULL
     /\ baseReal = NULL
     /\ baseSim = IF startTime # NULL THEN startTime
                  ELSE IF Len(sorted) > 0 THEN sorted[1].ts
                  ELSE WallStart
     /\ pointer = 0
     /\ simNow = baseSim
     /\ now = WallStart
     /\ emit = <<>>
     /\ session = <<>>
     /\ op = "new"
     /\ paused = FALSE
     /\ lastSeek = NoSeek
     /\ stepped = <<>>
     /\ mark = NoMark
     /\ lastTick = NULL
     /\ isPlaying = FALSE
     /\ uiSpeed = DefaultSpeed
     /\ activity = <<>>
     /\ uiSimTime = NULL

Construct(input, startTime, spd) == ConstructFrom(SortEvents(input), startTime, spd)

Init ==
  \E input \in InputLogs, startTime \in StartTimes, spd \in Speeds :
    Construct(input, startTime, spd)

\* ----------------------------------------------------------- operations
\* the anchor written by setSpeed(s): [baseSim, baseReal]
AnchorKept == [sim |-> baseSim, real |-> baseReal]
AnchorStaleSim == [sim |-> baseSim, real |-> now]
Anchor == [sim |-> GetSimTime, real |-> now]

\* setSpeed(s)
setSpeed(s) ==
  /\ simNow' = Anchor.sim
  /\ baseSim' = Anchor.sim
  /\ baseReal' = Anchor.real
  /\ speed' = s
  /\ emit' = <<>>
  /\ op' = "setSpeed"
  /\ UNCHANGED <<events, timer, pointer, now, session, paused, lastSeek, stepped>>

\* play(speed = this.speed)
play(s) ==
  /\ simNow' = Anchor.sim
  /\ baseSim' = Anchor.sim
  /\ baseReal' = now
  /\ speed' = s
  /\ timer' = IF timer # NULL THEN timer ELSE now + TickMs
  /\ session' = IF timer # NULL THEN session ELSE <<>>
  /\ emit' = <<>>
  /\ op' = "play"
  /\ paused' = FALSE
  /\ UNCHANGED <<events, pointer, now, lastSeek, stepped>>

\* pause()
pause ==
  /\ timer' = TimerAfterPause(timer)
  /\ session' = <<>>
  /\ emit' = <<>>
  /\ op' = "pause"
  /\ paused' = TRUE
  /\ UNCHANGED <<events, speed, baseReal, baseSim, pointer, simNow, now, lastSeek, stepped>>

\* seek(iso)
seekPausing(t) ==
  /\ baseSim' = t
  /\ baseReal' = now
  /\ simNow' = t
  /\ pointer' = FirstAtLeast(events, t, 1)
  /\ lastSeek' = [t |-> t, fwd |-> t > GetSimTime]
  /\ session' = <<>>
  /\ emit' = <<>>
  /\ op' = "seek"
  /\ timer' = NULL
  /\ UNCHANGED <<events, speed, now, paused, stepped>>
seek(t) ==
  /\ baseSim' = t
  /\ baseReal' = now
  /\ simNow' = t
  /\ pointer' = FirstAtLeast(events, t, 1)
  /\ lastSeek' = [t |-> t, fwd |-> t > GetSimTime]
  /\ session' = <<>>
  /\ emit' = <<>>
  /\ op' = "seek"
  /\ UNCHANGED <<events, speed, timer, now, paused, stepped>>

\* the interval set by play() is due: clearInterval cancels a pending callback
TimerDueStale == now >= timer
TimerDue == timer # NULL /\ now >= timer

\* _tick(), run by the interval once it is due
tick ==
  /\ TimerDue
  /\ LET t == GetSimTime
         q == DrainTo(events, pointer, t)
     IN /\ simNow' = t
        /\ emit' = <<TickSig(t)>> \o Delivered(events, pointer, q)
        /\ session' = session \o Ids(Delivered(events, pointer, q))
        /\ pointer' = NextPointer(events, pointer, t)
        /\ timer' = TimerAfterTick(events, NextPointer(events, pointer, t), timer)
  /\ op' = "tick"
  /\ UNCHANGED <<events, speed, baseReal, baseSim, now, paused, lastSeek, stepped>>

\* the player's methods as called directly, with the default (empty) callbacks
SetSpeed(s) == setSpeed(s) /\ UNCHANGED <<clockObs, uiVars>>
Play(s) == play(s) /\ UNCHANGED <<clockObs, uiVars>>
Pause == pause /\ UNCHANGED <<clockObs, uiVars>>
Seek(t) == seek(t) /\ UNCHANGED <<clockObs, uiVars>>
Tick == tick /\ UNCHANGED <<clockObs, uiVars>>

\* wall time passes; a due interval callback runs at most LateQuanta late
Advance ==
  /\ now < MaxWall
  /\ timer # NULL => now < timer + LateQuanta * Quantum
  /\ now' = now + Quantum
  /\ emit' = <<>>
  /\ op' = "advance"
  /\ UNCHANGED <<playerVars, session, paused, lastSeek, stepped, clockObs, uiVars>>

Next ==
  \/ \E s \in Speeds : Play(s)
  \/ Pause
  \/ \E s \in Speeds : SetSpeed(s)
  \/ \E t \in SeekTargets : Seek(t)
  \/ Tick
  \/ Advance

Spec == Init /\ [][Next]_vars

\* ------------------------------------------- an uninterrupted play-through
MaxTs == CHOOSE m \in TsSet : \A x \in TsSet : x <= m

\* wall time within which every play-through at the slowest speed has ended
PlayWall ==
  WallStart + PreWait + Quantum + SpeedDen * MaxTs + TickMs + (LateQuanta + 1) * Quantum

NeverPlayed == timer = NULL /\ op \in {"new", "advance"}

InitPlay ==
  \E input \in InputLogs, startTime \in {NULL} \cup TsSet, spd \in Speeds \ {0} :
    Construct(input, startTime, spd)

\* the one play() call of the play-through
PlayOnce ==
  /\ NeverPlayed
  /\ \E s \in Speeds \ {0} : Play(s)

AdvancePlay ==
  /\ now < PlayWall
  /\ \/ NeverPlayed /\ now < WallStart + PreWait
     \/ timer # NULL /\ now < timer + LateQuanta * Quantum
  /\ now' = now + Quantum
  /\ emit' = <<>>
  /\ op' = "advance"
  /\ UNCHANGED <<playerVars, session, paused, lastSeek, stepped, clockObs, uiVars>>

NextPlay == PlayOnce \/ Tick \/ AdvancePlay

SpecPlay == InitPlay /\ [][NextPlay]_vars

\* the interval fires and wall time advances
FairSpecPlay == SpecPlay /\ WF_vars(Tick) /\ WF_vars(AdvancePlay)

\* ------------------------------------- a log with one unparseable timestamp
\* input logs in which exactly one record's timestamp does not parse
BadLogs ==
  { l \in UNION { { [i \in 1..n |-> Event(i, f[i])] : f \in [1..n -> TsSet \cup {NaN}] } :
                   n \in 1..MaxLen } :
      Cardinality({ i \in 1..Len(l) : l[i].ts = NaN }) = 1 }

Perms(l) ==
  { [i \in 1..Len(l) |-> l[f[i]]] :
      f \in { g \in [1..Len(l) -> 1..Len(l)] : \A i, j \in 1..Len(l) : i # j => g[i] # g[j] } }

\* the comparator is a consistent ordering of l only if it calls every pair
\* equal, since it calls the bad record equal to all others
ComparatorConsistent(l) == \A i, j \in 1..Len(l) : Compare(l[i], l[j]) = 0

\* what sort may return: with an inconsistent comparator the order is
\* implementation-defined
SortOutcomes(l) == IF ComparatorConsistent(l) THEN {SortEvents(l)} ELSE Perms(l)

InitBad ==
  \E input \in BadLogs, startTime \in {NULL} \cup TsSet, spd \in Speeds \ {0} :
    \E sorted \in SortOutcomes(input) : ConstructFrom(sorted, startTime, spd)

SpecBad == InitBad /\ [][NextPlay]_vars

\* --------------------------------- the clock as its caller observes it
\* The control calls below also record what the caller can observe at their
\* return (mark), and the tick records the time handed to onTick (lastTick).
Marked(name) == [op |-> name, sim |-> GetSimTime', real |-> now']

PlayC(s) == play(s) /\ mark' = Marked("play") /\ UNCHANGED <<lastTick, uiVars>>
PauseC == pause /\ mark' = Marked("pause") /\ UNCHANGED <<lastTick, uiVars>>
SetSpeedC(s) == setSpeed(s) /\ mark' = Marked("setSpeed") /\ UNCHANGED <<lastTick, uiVars>>
TickC == tick /\ lastTick' = emit'[1].val /\ UNCHANGED <<mark, uiVars>>

\* play, pause, setSpeed and ticks in any order; no seek, no step
NextClock ==
  \/ \E s \in Speeds : PlayC(s)
  \/ PauseC
  \/ \E s \in Speeds : SetSpeedC(s)
  \/ TickC
  \/ Advance

SpecClock == Init /\ [][NextClock]_vars

\* ------------------------------------------------ stepping from the dashboard
\* stepForward() of FleetDashboard, as far as it acts on the player
stepForward ==
  LET t == GetSimTime
      i == FirstAfter(events, t, 1)
  IN /\ timer' = TimerAfterPause(timer)
     /\ IF i # -1
        THEN /\ baseSim' = events[i + 1].ts
             /\ baseReal' = now
             /\ simNow' = events[i + 1].ts
             /\ pointer' = FirstAtLeast(events, events[i + 1].ts, 1)
             /\ lastSeek' = [t |-> events[i + 1].ts, fwd |-> TRUE]
             /\ stepped' = Append(stepped, events[i + 1].id)
        ELSE UNCHANGED <<baseSim, baseReal, simNow, pointer, lastSeek, stepped>>
     /\ session' = <<>>
     /\ emit' = <<>>
     /\ op' = "step"
     /\ paused' = TRUE
     /\ UNCHANGED <<events, speed, now>>

StepForward == stepForward /\ UNCHANGED <<clockObs, uiVars>>

\* the player as the dashboard builds it: startTime is the first event's timestamp
InitStep ==
  \E input \in InputLogs, spd \in Speeds :
    Construct(input, IF input = <<>> THEN NULL ELSE SortEvents(input)[1].ts, spd)

NextStep == StepForward \/ Advance

SpecStep == InitStep /\ [][NextStep]_vars

\* ------------------------------------------------------- the dashboard
ActivityCap == 300                 \* .slice(0, 300) of the activity feed
UiSpeeds == {1, 4}                 \* options of the speed select: 0.25x, 1x

Take(q, n) == SubSeq(q, 1, IF Len(q) < n THEN Len(q) ELSE n)

\* setActivity(prev => [ev, ...prev].slice(0, 300)), once per id of ids in order
RECURSIVE Prepend(_, _)
Prepend(feed, ids) ==
  IF ids = <<>> THEN feed
  ELSE Prepend(Take(<<Head(ids)>> \o feed, ActivityCap), Tail(ids))

\* load(): the player exists only for a non-empty merged log, which load()
\* has sorted; it is built with startTime = all[0].timestamp and speed 1
InitUI ==
  \E input \in InputLogs \ {<<>>} :
    LET all == SortEvents(input)
    IN Construct(all, all[1].ts, DefaultSpeed)

\* useEffect(() => player.setSpeed(speed), [speed, player]) as the player is set
Mounted == op # "new"
MountEffect ==
  /\ ~Mounted
  /\ setSpeed(uiSpeed)
  /\ UNCHANGED <<clockObs, uiVars>>

\* the callbacks the dashboard gives the player, run by _tick
TickUI ==
  /\ tick
  /\ uiSimTime' = emit'[1].val
  /\ activity' = Prepend(activity, Ids(SubSeq(emit', 2, Len(emit'))))
  /\ UNCHANGED <<clockObs, isPlaying, uiSpeed>>

\* togglePlay()
TogglePlay ==
  /\ Mounted
  /\ IF isPlaying THEN pause /\ isPlaying' = FALSE
                  ELSE play(uiSpeed) /\ isPlaying' = TRUE
  /\ UNCHANGED <<clockObs, uiSpeed, activity, uiSimTime>>

\* the Reset button: pause(), seek(mergedEvents[0].timestamp),
\* setIsPlaying(false), setActivity([])
Reset ==
  /\ Mounted
  /\ timer' = TimerAfterPause(timer)
  /\ baseSim' = events[1].ts
  /\ baseReal' = now
  /\ simNow' = events[1].ts
  /\ pointer' = FirstAtLeast(events, events[1].ts, 1)
  /\ lastSeek' = [t |-> events[1].ts, fwd |-> events[1].ts > GetSimTime]
  /\ session' = <<>>
  /\ emit' = <<>>
  /\ op' = "reset"
  /\ paused' = TRUE
  /\ isPlaying' = FALSE
  /\ activity' = <<>>
  /\ stepped' = <<>>
  /\ UNCHANGED <<events, speed, now, clockObs, uiSpeed, uiSimTime>>

\* the Step button: stepForward() with its setSimTime and setActivity
StepUI ==
  /\ Mounted
  /\ stepForward
  /\ IF Len(stepped') > Len(stepped)
     THEN /\ uiSimTime' = GetSimTime'
          /\ activity' = Prepend(activity, <<stepped'[Len(stepped')]>>)
     ELSE UNCHANGED <<uiSimTime, activity>>
  /\ UNCHANGED <<clockObs, isPlaying, uiSpeed>>

\* the speed select: setSpeed(Number(value)), then the effect calls player.setSpeed
ChangeSpeed(s) ==
  /\ Mounted
  /\ s # uiSpeed
  /\ uiSpeed' = s
  /\ setSpeed(s)
  /\ UNCHANGED <<clockObs, isPlaying, activity, uiSimTime>>

AdvanceUI == Mounted /\ Advance

NextUI ==
  \/ MountEffect
  \/ TogglePlay
  \/ Reset
  \/ StepUI
  \/ \E s \in UiSpeeds : ChangeSpeed(s)
  \/ TickUI
  \/ AdvanceUI

SpecUI == InitUI /\ [][NextUI]_vars

\* ------------------------------------------------------------ properties
TypeOK ==
  /\ speed \in Speeds
  /\ pointer \in 0..Len(events)
  /\ timer = NULL \/ timer > WallStart

TsOf(i) == (CHOOSE k \in 1..Len(events) : events[k].id = i)
EventIds(sigs) == { sigs[k].val : k \in { j \in 1..Len(sigs) : sigs[j].kind = "event" } }
TsOfId(i) == events[TsOf(i)].ts

\* C1: a full uninterrupted play-through passes to onEvent exactly the log
\* sorted ascending by timestamp, ties in input order: what has been delivered
\* is always in that order without repetition, when the player auto-pauses
\* every record of the input has been delivered, and once play() has been
\* called that auto-pause is eventually reached.
InSortedInputOrder(ids) ==
  \A i, j \in 1..Len(ids) :
    i < j => \/ TsOfId(ids[i]) < TsOfId(ids[j])
             \/ TsOfId(ids[i]) = TsOfId(ids[j]) /\ ids[i] < ids[j]

PlayThroughSafe ==
  /\ InSortedInputOrder(session)
  /\ { session[k] : k \in 1..Len(session) } \subseteq 1..Len(events)
  /\ (op = "tick" /\ timer = NULL) =>
        { session[k] : k \in 1..Len(session) } = 1..Len(events)

PlayThroughDelivers ==
  /\ []PlayThroughSafe
  /\ (timer # NULL) ~> (timer = NULL /\ Len(session) = Len(events))

PlayThroughWitness ==
  /\ op = "tick" /\ timer = NULL
  /\ Len(session) >= 2
  /\ TsOfId(session[1]) = TsOfId(session[2])
  /\ speed = 1

\* C2: no event is passed to onEvent twice within one play session.
NoDuplicateInSession ==
  \A i, j \in 1..Len(session) : i # j => session[i] # session[j]

NoDuplicateWitness ==
  /\ op = "tick"
  /\ Len(session) >= 2
  /\ Len(emit) = 2

\* C3: while the player is not running, getSimTime() returns the same value
\* however much wall time elapses.
FrozenWhenNotRunning ==
  [][(timer = NULL /\ timer' = NULL /\ op' = "advance") => GetSimTime' = GetSimTime]_vars

\* C4: getSimTime() right before setSpeed(factor) equals getSimTime() right
\* after it, with no wall time in between, running or not.
SetSpeedContinuous ==
  [][op' = "setSpeed" => (now' = now /\ GetSimTime' = GetSimTime)]_vars

SetSpeedWitness ==
  /\ op = "setSpeed"
  /\ timer # NULL
  /\ baseReal = now
  /\ baseSim \notin (TsSet \cup SeekTargets \cup {WallStart})

\* C5: play() while already running leaves anchor wall time, anchor simulated
\* time, speed, cursor and timer as the first call left them.
PlayIdempotent ==
  [][(op' = "play" /\ timer # NULL /\ speed' = speed)
       => UNCHANGED <<baseReal, baseSim, speed, pointer, timer>>]_vars

\* C6: after seek(t) the cursor is the index of the first event with
\* timestamp >= t, or the log length when there is none; getSimTime() is t;
\* seek calls neither onEvent nor onTick.
SeekCursor ==
  op = "seek" =>
    /\ \A k \in 1..pointer : events[k].ts < lastSeek.t
    /\ pointer = Len(events) \/ events[pointer + 1].ts >= lastSeek.t
    /\ GetSimTime = lastSeek.t
    /\ emit = <<>>

SeekCursorWitness ==
  /\ op = "seek"
  /\ 0 < pointer /\ pointer < Len(events)
  /\ events[pointer + 1].ts = lastSeek.t

\* C7 as stated: after a forward seek(t), no event with timestamp <= t is
\* passed to onEvent by later ticks.
SeekSkipsUpToTarget ==
  (lastSeek.t # NULL /\ lastSeek.fwd) =>
     \A i \in EventIds(emit) : TsOfId(i) > lastSeek.t

\* C7 as amended: after seek(t), no event with timestamp < t is passed to
\* onEvent by later ticks, while the events with timestamp = t stay pending:
\* a seek to the last timestamp of the log leaves the cursor below the log
\* length, and the next tick passes exactly the events from the cursor on to
\* onEvent and auto-pauses.
PendingIds == { events[k].id : k \in (pointer + 1)..Len(events) }

SeekSkipsBeforeTarget ==
  [][/\ lastSeek'.t # NULL => \A i \in EventIds(emit') : TsOfId(i) >= lastSeek'.t
     /\ (op' = "seek" /\ events # <<>> /\ lastSeek'.t = events[Len(events)].ts)
           => pointer' < Len(events)
     /\ (op' = "tick" /\ lastSeek.t # NULL /\ events # <<>>
           /\ lastSeek.t = events[Len(events)].ts)
           => /\ EventIds(emit') = PendingIds
              /\ pointer' = Len(events)
              /\ timer' = NULL]_vars

SeekSkipsWitness ==
  /\ op = "tick"
  /\ lastSeek.t # NULL /\ lastSeek.fwd
  /\ timer = NULL
  /\ \E i \in EventIds(emit) : TsOfId(i) = lastSeek.t
  /\ lastSeek.t = events[Len(events)].ts

\* C8: from a fresh player standing at the first event's timestamp, repeated
\* stepForward calls visit the events of the log in sorted order, one new
\* event per call and none skipped, and getSimTime() is the visited event's
\* timestamp right after each call.
StepVisitsEveryEvent ==
  /\ Len(stepped) <= Len(events)
  /\ \A k \in 1..Len(stepped) : stepped[k] = events[k].id
  /\ (op = "step" /\ stepped # <<>>) => GetSimTime = TsOfId(stepped[Len(stepped)])

\* C9: a tick that ends with the cursor at the log length leaves the player
\* not running, with no pause() call; for an empty log that is the first tick.
AutoPauseOnExhaustion ==
  (op = "tick" /\ pointer >= Len(events)) => (timer = NULL /\ ~paused)

AutoPauseWitness ==
  /\ op = "tick"
  /\ timer = NULL
  /\ Len(emit) > 1
  /\ pointer = Len(events)

\* C10: from the return of pause() until the next play() neither onTick nor
\* onEvent is called, and pause() on a paused player changes none of its fields.
QuietAfterPause ==
  [][/\ paused => emit' = <<>>
     /\ (op' = "pause" /\ timer = NULL) => UNCHANGED playerVars]_vars

QuietAfterPauseWitness ==
  /\ paused
  /\ op = "advance"
  /\ baseReal # NULL /\ now >= baseReal + TickMs
  /\ pointer < Len(events)
  /\ events[pointer + 1].ts <= GetSimTime

\* C11: a record with an unparseable timestamp is never passed to onEvent
\* and does not hold the others up: a tick whose time has passed every
\* well-formed timestamp leaves every well-formed event delivered and the
\* player auto-paused on exhaustion.
GoodIds == { events[k].id : k \in { j \in 1..Len(events) : events[j].ts # NaN } }

BadRecordSkipped ==
  /\ \A k \in 1..Len(session) : session[k] \in GoodIds
  /\ (op = "tick" /\ \A k \in 1..Len(events) : events[k].ts = NaN \/ DateLe(events[k].ts, simNow))
       => (timer = NULL /\ GoodIds \subseteq { session[k] : k \in 1..Len(session) })

\* C12 as stated: while running, with s > 0 and w the wall time since the
\* last anchoring call, getSimTime() (and the time a tick carries at that
\* instant) equals anchorSimTime + w * s.
SinceAnchor == now - mark.real
Running == timer # NULL /\ mark.op \in {"play", "setSpeed"} /\ speed > 0

ClockFollowsAnchorExactly ==
  /\ Running => SpeedDen * (GetSimTime - mark.sim) = SinceAnchor * speed
  /\ (Running /\ op = "tick") => SpeedDen * (lastTick - mark.sim) = SinceAnchor * speed

\* C12 as amended: ... equals anchorSimTime + w * s truncated to whole
\* milliseconds, so it is at most w * s and less than one millisecond short.
TruncatedFrom(t, x) == SpeedDen * t <= x /\ x < SpeedDen * t + SpeedDen

ClockFollowsAnchorTruncated ==
  /\ Running => TruncatedFrom(GetSimTime - mark.sim, SinceAnchor * speed)
  /\ (Running /\ op = "tick") => TruncatedFrom(lastTick - mark.sim, SinceAnchor * speed)

ClockFollowsAnchorWitness ==
  /\ Running /\ op = "tick"
  /\ speed = 1
  /\ SinceAnchor >= TickMs
  /\ SpeedDen * (lastTick - mark.sim) < SinceAnchor * speed

\* C16: if pause() is called when getSimTime() is T and play() is called
\* after any amount of wall time, getSimTime() at the return of play() is T.
ResumeJumpFree ==
  [][(op' = "play" /\ mark.op = "pause") => GetSimTime' = mark.sim]_vars

\* C20: with speeds >= 0 and no seek or step, the time carried by each
\* onTick is at least the time carried by the one before it, and the cursor
\* never decreases, whatever play, pause and setSpeed calls come in between.
TickTimeMonotone ==
  [][/\ (op' = "tick" /\ lastTick # NULL) => lastTick' >= lastTick
     /\ pointer' >= pointer]_vars

TickTimeMonotoneWitness ==
  /\ op = "tick"
  /\ mark.op = "setSpeed" /\ mark.real > WallStart
  /\ lastTick > mark.sim
  /\ now >= WallStart + 2 * TickMs
  /\ pointer >= 1

\* C13: within a play session the events passed to onEvent have
\* non-decreasing timestamps, whatever setSpeed calls and wall time lie
\* between the ticks.
NonDecreasingInSession ==
  \A i, j \in 1..Len(session) : i < j => TsOfId(session[i]) <= TsOfId(session[j])

NonDecreasingWitness ==
  /\ op = "tick"
  /\ Len(emit) = 2
  /\ Len(session) >= 2
  /\ TsOfId(session[1]) < TsOfId(session[Len(session)])
  /\ baseReal > WallStart

\* C14: a tick calls onTick once, first, with getSimTime(), then onEvent for
\* exactly the events from the cursor on with timestamp <= that time, in log
\* order; afterwards every event below the cursor has timestamp <= that time
\* and every event at or above the cursor has timestamp > that time.
TickDelivers ==
  [][op' = "tick" =>
       /\ Len(emit') = 1 + (pointer' - pointer)
       /\ emit'[1] = [kind |-> "tick", val |-> GetSimTime]
       /\ \A k \in 1..(pointer' - pointer) :
             emit'[k + 1] = [kind |-> "event", val |-> events[pointer + k].id]
       /\ \A k \in 1..pointer' : events[k].ts <= GetSimTime
       /\ \A k \in (pointer' + 1)..Len(events) : events[k].ts > GetSimTime]_vars

TickDeliversWitness ==
  /\ op = "tick"
  /\ Len(emit) = 3
  /\ pointer = Len(events)
  /\ lastSeek.t # NULL

\* C17 as stated: once the cursor has reached the log length, onTick keeps
\* firing at later cadence points.  onTick is called only from the interval
\* callback, so this takes the interval to be still set after the exhausting tick.
ExhaustedKeepsTicking ==
  (op = "tick" /\ pointer >= Len(events)) => timer # NULL

\* C17 as amended: once a tick has brought the cursor to the log length the
\* player is no longer running, without a pause() call, and while it is not
\* running no onTick and no onEvent is called.
ExhaustedStopsTicking ==
  [][/\ (op' = "tick" /\ pointer' >= Len(events)) => (timer' = NULL /\ ~paused')
     /\ timer = NULL => emit' = <<>>]_vars

ExhaustedStopsWitness ==
  /\ op = "advance"
  /\ timer = NULL /\ ~paused
  /\ session # <<>>
  /\ pointer = Len(events)

\* C18: seek(t) leaves the timer, the speed and the log as they were: a
\* running player keeps running, a paused one stays paused.
SeekKeepsRunState ==
  [][op' = "seek" => UNCHANGED <<timer, speed, events, paused>>]_vars

SeekKeepsRunStateWitness ==
  /\ op = "seek"
  /\ timer # NULL
  /\ speed = 1
  /\ pointer > 0

\* C15: an event appended to the activity feed by a step is not delivered
\* again by a later play(): each event is in the activity feed at most once.
ActivityWithoutDuplicates ==
  \A i, j \in 1..Len(activity) : i # j => activity[i] # activity[j]

\* C19: the dashboard's isPlaying flag is true exactly when the player's
\* interval timer is active.
IsPlayingMatchesTimer == isPlaying <=> (timer # NULL)
====
